---------------------------- MODULE Spec2Model ----------------------------
(***************************************************************************)
(* Model of src/deprecation_handler.py: class DeprecationHandler.          *)
(*                                                                         *)
(* Conventions                                                             *)
(*  - A Python Optional[str] is a record [some, s]; None is some = FALSE.   *)
(*  - A message is a TLC string, built with \o exactly as the f-strings    *)
(*    build it.  A TLA+ string literal cannot contain the grave accent, so *)
(*    the apostrophe stands for it in every literal below (BT).            *)
(*  - A __package__ identifier is a sequence of one-character strings, so  *)
(*    that str.startswith is a real prefix test.                           *)
(*  - A frame is what f_globals holds for "__package__": tag "absent" (no  *)
(*    such key), "none" (None) or "str" (a string, in field s).            *)
(*  - The call chain is a sequence of frames, innermost first; f_back of   *)
(*    the last one is None, modelled as the index Len(chain) + 1.          *)
(***************************************************************************)
EXTENDS Integers, Sequences, FiniteSets, TLC

VARIABLES package_name, module_package, chain, pc, entry, args, message,
          stacklevel, frame, count, delivered, outcome, inferences

vars == <<package_name, module_package, chain, pc, entry, args, message,
          stacklevel, frame, count, delivered, outcome, inferences>>

-----------------------------------------------------------------------------
(* Bounds *)

\* callers above the entry point's frame
MaxCallers == 2
\* frames of a synthetic call chain
MaxFrames == 3
\* largest explicit stacklevel a caller supplies
MaxStacklevel == 1

-----------------------------------------------------------------------------
(* Values *)

None == [some |-> FALSE, s |-> ""]
Some(x) == [some |-> TRUE, s |-> x]

NoInt == [some |-> FALSE, n |-> 0]
SomeInt(i) == [some |-> TRUE, n |-> i]

\* bool(x) of an Optional[str]
Truthy(o) == o.some /\ o.s # ""

\* str(x) as an f-string replacement field renders it
Format(o) == IF o.some THEN o.s ELSE "None"

BT == "'"

Absent == [tag |-> "absent", s |-> <<>>]
NonePackage == [tag |-> "none", s |-> <<>>]
Package(id) == [tag |-> "str", s |-> id]

StartsWith(str, prefix) ==
    /\ Len(str) >= Len(prefix)
    /\ SubSeq(str, 1, Len(prefix)) = prefix


-----------------------------------------------------------------------------
(* DeprecationHandler._generate_message *)

\* "parent_name or parent_type" in place of "parent_name and parent_type"
generate_message_or(item_type, item_name, new_item_name, remove_version, parent_name, parent_type) ==
    LET parent_str ==
            IF Truthy(parent_name) \/ Truthy(parent_type)
            THEN " for the " \o BT \o Format(parent_name) \o BT \o " "
                     \o Format(parent_type)
            ELSE ""
        m1 == "The " \o BT \o Format(item_name) \o BT \o " " \o item_type
                  \o parent_str \o " will be "
        m2 == m1 \o (IF Truthy(new_item_name)
                     THEN "superseded by " \o BT \o Format(new_item_name)
                              \o BT \o ". "
                     ELSE "removed. ")
        m3 == m2 \o "Support for this " \o item_type \o " will be removed in "
    IN  m3 \o (IF Truthy(remove_version)
               THEN "version " \o Format(remove_version) \o "."
               ELSE "a future version.")

generate_message(item_type, item_name, new_item_name, remove_version, parent_name, parent_type) ==
    LET parent_str ==
            IF Truthy(parent_name) /\ Truthy(parent_type)
            THEN " for the " \o BT \o Format(parent_name) \o BT \o " "
                     \o Format(parent_type)
            ELSE ""
        m1 == "The " \o BT \o Format(item_name) \o BT \o " " \o item_type
                  \o parent_str \o " will be "
        m2 == m1 \o (IF Truthy(new_item_name)
                     THEN "superseded by " \o BT \o Format(new_item_name)
                              \o BT \o ". "
                     ELSE "removed. ")
        m3 == m2 \o "Support for this " \o item_type \o " will be removed in "
    IN  m3 \o (IF Truthy(remove_version)
               THEN "version " \o Format(remove_version) \o "."
               ELSE "a future version.")

-----------------------------------------------------------------------------
(* Inputs *)

ItemTypes == {"argument", "attribute", "class", "method"}
ParentTypes == {None, Some(""), Some("class"), Some("method")}
Names == {None, Some(""), Some("x")}
NewNames == {None, Some(""), Some("y")}
ParentNames == {None, Some(""), Some("r")}
Versions == {None, Some(""), Some("2.0")}
Messages == {None, Some(""), Some("custom text")}

\* the package the Handler is bound to
PackageNames == {<<"p">>, <<"p", ".", "s">>}

-----------------------------------------------------------------------------
(* The Composer in isolation: inputs drawn in InitCompose, applied by Compose *)

InitCompose ==
    /\ package_name = <<>>
    /\ module_package = NonePackage
    /\ chain = <<>>
    /\ pc = "compose"
    /\ entry = "_generate_message"
    /\ args \in [item_type : ItemTypes, item_name : Names,
                 new_item_name : NewNames, remove_version : Versions,
                 parent_name : ParentNames, parent_type : ParentTypes]
    /\ message = None
    /\ stacklevel = NoInt
    /\ frame = 0
    /\ count = 0
    /\ delivered = <<>>
    /\ outcome = "running"
    /\ inferences = 0

Compose ==
    /\ pc = "compose"
    /\ message' = Some(generate_message(args.item_type, args.item_name,
                                        args.new_item_name, args.remove_version,
                                        args.parent_name, args.parent_type))
    /\ pc' = "composed"
    /\ UNCHANGED <<package_name, module_package, chain, entry, args,
                   stacklevel, frame, count, delivered, outcome, inferences>>

SpecCompose == InitCompose /\ [][Compose]_vars

-----------------------------------------------------------------------------
(* DeprecationHandler._find_stacklevel *)

\* the while condition with the dot left out of the prefix
in_package_undotted(fr) ==
    /\ fr.tag = "str"
    /\ fr.s # <<>>
    /\ StartsWith(fr.s, package_name)

\* the while condition, for a frame that has a "__package__" entry
in_package(fr) ==
    /\ fr.tag = "str"
    /\ fr.s # <<>>
    /\ StartsWith(fr.s, package_name \o <<".">>)

\* f_back of the outermost frame is None
IsNoneFrame == frame = Len(chain) + 1

\* stacklevel += 1; frame = frame.f_back
find_loop ==
    /\ pc = "find"
    /\ ~IsNoneFrame
    /\ chain[frame].tag # "absent"
    /\ in_package(chain[frame])
    /\ count' = count + 1
    /\ frame' = frame + 1
    /\ UNCHANGED <<package_name, module_package, chain, pc, entry, args,
                   message, stacklevel, delivered, outcome, inferences>>

\* the condition is false: return stacklevel, back in _show_deprecation_message
find_return ==
    /\ pc = "find"
    /\ ~IsNoneFrame
    /\ chain[frame].tag # "absent"
    /\ ~in_package(chain[frame])
    /\ stacklevel' = SomeInt(count)
    /\ pc' = "warn"
    /\ UNCHANGED <<package_name, module_package, chain, entry, args, message,
                   frame, count, delivered, outcome, inferences>>

\* frame.f_globals["__package__"] on globals without that key
find_key_error ==
    /\ pc = "find"
    /\ ~IsNoneFrame
    /\ chain[frame].tag = "absent"
    /\ outcome' = "KeyError"
    /\ pc' = "done"
    /\ UNCHANGED <<package_name, module_package, chain, entry, args, message,
                   stacklevel, frame, count, delivered, inferences>>

\* frame.f_globals when frame is None
find_attribute_error ==
    /\ pc = "find"
    /\ IsNoneFrame
    /\ outcome' = "AttributeError"
    /\ pc' = "done"
    /\ UNCHANGED <<package_name, module_package, chain, entry, args, message,
                   stacklevel, frame, count, delivered, inferences>>

find_stacklevel == find_loop \/ find_return \/ find_key_error \/ find_attribute_error

-----------------------------------------------------------------------------
(* The walk in isolation: a synthetic call chain drawn in InitWalk *)

WalkFrames ==
    {Package(<<"p">>), Package(<<"p", ".", "s">>),
     Package(<<"p", ".", "s", ".", "t">>), Package(<<"p", "x">>),
     Package(<<"o">>), Package(<<>>), NonePackage, Absent}

SeqsUpTo(S, lo, hi) == UNION {[1..n -> S] : n \in lo..hi}

InitWalk ==
    /\ package_name \in PackageNames
    /\ module_package = NonePackage
    /\ chain \in SeqsUpTo(WalkFrames, 1, MaxFrames)
    /\ pc = "find"
    /\ entry = "_find_stacklevel"
    /\ args = None
    /\ message = None
    /\ stacklevel = NoInt
    /\ frame = 1
    /\ count = 0
    /\ delivered = <<>>
    /\ outcome = "running"
    /\ inferences = 1

SpecWalk == InitWalk /\ [][find_stacklevel]_vars

-----------------------------------------------------------------------------
(* DeprecationHandler._show_deprecation_message and warnings.warn *)

\* "if not stacklevel" in place of "if stacklevel is None"
show_deprecation_message_falsy ==
    /\ pc = "show"
    /\ IF ~stacklevel.some \/ stacklevel.n = 0
       THEN /\ pc' = "find"
            /\ frame' = 1
            /\ count' = 0
            /\ inferences' = inferences + 1
       ELSE /\ pc' = "warn"
            /\ UNCHANGED <<frame, count, inferences>>
    /\ UNCHANGED <<package_name, module_package, chain, entry, args, message,
                   stacklevel, delivered, outcome>>

\* if stacklevel is None: stacklevel = self._find_stacklevel()
show_deprecation_message ==
    /\ pc = "show"
    /\ IF ~stacklevel.some
       THEN /\ pc' = "find"
            /\ frame' = 1
            /\ count' = 0
            /\ inferences' = inferences + 1
       ELSE /\ pc' = "warn"
            /\ UNCHANGED <<frame, count, inferences>>
    /\ UNCHANGED <<package_name, module_package, chain, entry, args, message,
                   stacklevel, delivered, outcome>>

WarnCall == [message |-> message.s, category |-> "DeprecationWarning",
             stacklevel |-> stacklevel.n]

\* warn(message, DeprecationWarning, stacklevel=stacklevel); the host returns
warn_returns ==
    /\ pc = "warn"
    /\ delivered' = Append(delivered, WarnCall)
    /\ outcome' = "returned"
    /\ pc' = "done"
    /\ UNCHANGED <<package_name, module_package, chain, entry, args, message,
                   stacklevel, frame, count, inferences>>

\* the host's filters turn the warning into an exception, which nothing catches
warn_raises ==
    /\ pc = "warn"
    /\ delivered' = Append(delivered, WarnCall)
    /\ outcome' = "DeprecationWarning"
    /\ pc' = "done"
    /\ UNCHANGED <<package_name, module_package, chain, entry, args, message,
                   stacklevel, frame, count, inferences>>

-----------------------------------------------------------------------------
(* The four entry points *)

\* where the module that defines DeprecationHandler lives
ModulePackages ==
    {Package(<<"p", ".", "s">>), Package(<<"p">>), Package(<<"o">>)}

\* frames of the callers above the entry point
CallerFrames ==
    {Package(<<"p", ".", "s">>), Package(<<"p">>), Package(<<"o">>), Absent}

EntryNames == {None, Some("x")}
EntryNewNames == {None, Some("y")}
EntryParents == {None, Some("r")}
EntryVersions == {None, Some("2.0")}
Stacklevels == {NoInt} \cup {SomeInt(i) : i \in 0..MaxStacklevel}

\* the frames of _find_stacklevel, _show_deprecation_message and the entry
\* point share the module's globals; the callers' frames follow
CallChain(callers) ==
    <<module_package, module_package, module_package>> \o callers

\* message or self._generate_message(...)
Resolve(msg, generated) == IF Truthy(msg) THEN msg.s ELSE generated

\* the call of self._show_deprecation_message(resolved, level); the Handler
\* keeps nothing from one invocation to the next, so one is followed
Invoke(name, kwargs, resolved, callers) ==
    /\ entry' = name
    /\ args' = kwargs
    /\ chain' = CallChain(callers)
    /\ message' = Some(resolved)
    /\ stacklevel' = kwargs.stacklevel
    /\ pc' = "show"
    /\ frame' = 0
    /\ count' = 0
    /\ delivered' = <<>>
    /\ outcome' = "running"
    /\ inferences' = 0
    /\ UNCHANGED <<package_name, module_package>>

\* deprecate_class composing with a ("class") parent clause like its siblings
deprecate_class_parent ==
    /\ pc = "idle"
    /\ \E class_name \in EntryNames, msg \in Messages,
       new_class_name \in EntryNewNames, remove_version \in EntryVersions,
       level \in Stacklevels, callers \in SeqsUpTo(CallerFrames, 0, MaxCallers) :
        Invoke("deprecate_class",
               [name |-> class_name, message |-> msg, parent |-> None,
                new_name |-> new_class_name, remove_version |-> remove_version,
                stacklevel |-> level],
               Resolve(msg, generate_message("class", class_name,
                                             new_class_name, remove_version,
                                             class_name, Some("class"))),
               callers)

deprecate_argument ==
    /\ pc = "idle"
    /\ \E argument_name \in EntryNames, msg \in Messages,
       method_name \in EntryParents, new_argument_name \in EntryNewNames,
       remove_version \in EntryVersions, level \in Stacklevels,
       callers \in SeqsUpTo(CallerFrames, 0, MaxCallers) :
        Invoke("deprecate_argument",
               [name |-> argument_name, message |-> msg, parent |-> method_name,
                new_name |-> new_argument_name,
                remove_version |-> remove_version, stacklevel |-> level],
               Resolve(msg, generate_message("argument", argument_name,
                                             new_argument_name, remove_version,
                                             method_name, Some("method"))),
               callers)

deprecate_attribute ==
    /\ pc = "idle"
    /\ \E attribute_name \in EntryNames, class_name \in EntryParents,
       msg \in Messages, new_attribute_name \in EntryNewNames,
       remove_version \in EntryVersions, level \in Stacklevels,
       callers \in SeqsUpTo(CallerFrames, 0, MaxCallers) :
        Invoke("deprecate_attribute",
               [name |-> attribute_name, message |-> msg, parent |-> class_name,
                new_name |-> new_attribute_name,
                remove_version |-> remove_version, stacklevel |-> level],
               Resolve(msg, generate_message("attribute", attribute_name,
                                             new_attribute_name, remove_version,
                                             class_name, Some("class"))),
               callers)

deprecate_class ==
    /\ pc = "idle"
    /\ \E class_name \in EntryNames, msg \in Messages,
       new_class_name \in EntryNewNames, remove_version \in EntryVersions,
       level \in Stacklevels, callers \in SeqsUpTo(CallerFrames, 0, MaxCallers) :
        Invoke("deprecate_class",
               [name |-> class_name, message |-> msg, parent |-> None,
                new_name |-> new_class_name, remove_version |-> remove_version,
                stacklevel |-> level],
               Resolve(msg, generate_message("class", class_name,
                                             new_class_name, remove_version,
                                             None, None)),
               callers)

deprecate_method ==
    /\ pc = "idle"
    /\ \E class_name \in EntryParents, msg \in Messages,
       method_name \in EntryNames, new_method_name \in EntryNewNames,
       remove_version \in EntryVersions, level \in Stacklevels,
       callers \in SeqsUpTo(CallerFrames, 0, MaxCallers) :
        Invoke("deprecate_method",
               [name |-> method_name, message |-> msg, parent |-> class_name,
                new_name |-> new_method_name,
                remove_version |-> remove_version, stacklevel |-> level],
               Resolve(msg, generate_message("method", method_name,
                                             new_method_name, remove_version,
                                             class_name, Some("class"))),
               callers)

-----------------------------------------------------------------------------
(* The Handler: __init__ binds package_name; then entry points are called *)

Init ==
    /\ package_name \in PackageNames
    /\ module_package \in ModulePackages
    /\ chain = <<>>
    /\ pc = "idle"
    /\ entry = "none"
    /\ args = None
    /\ message = None
    /\ stacklevel = NoInt
    /\ frame = 0
    /\ count = 0
    /\ delivered = <<>>
    /\ outcome = "running"
    /\ inferences = 0

Next ==
    \/ deprecate_argument
    \/ deprecate_attribute
    \/ deprecate_class
    \/ deprecate_method
    \/ show_deprecation_message
    \/ find_stacklevel
    \/ warn_returns
    \/ warn_raises

Spec == Init /\ [][Next]_vars

-----------------------------------------------------------------------------
(* Properties of the Composer (under SpecCompose) *)

\* The four parts of the composed sentence, in order; hasParent, hasNew and
\* hasVersion say which of the optional parts are taken as present.
ComposedAs(item_type, item_name, hasParent, parent_name, parent_type, hasNew, new_item_name, hasVersion, remove_version) ==
    ("The " \o BT \o item_name \o BT \o " " \o item_type)
    \o (IF hasParent
        THEN " for the " \o BT \o parent_name \o BT \o " " \o parent_type
        ELSE "")
    \o (IF hasNew
        THEN " will be superseded by " \o BT \o new_item_name \o BT \o ". "
        ELSE " will be removed. ")
    \o ("Support for this " \o item_type \o " will be removed in ")
    \o (IF hasVersion
        THEN "version " \o remove_version \o "."
        ELSE "a future version.")

Composed == pc = "composed" /\ args.item_name.some

\* C1 as stated: the composed message is the four-part concatenation, an
\* optional part being present whenever its value is given (is not None).
C1_PresentMeansNotNone ==
    Composed =>
        message.s = ComposedAs(args.item_type, args.item_name.s,
                               args.parent_name.some /\ args.parent_type.some,
                               args.parent_name.s, args.parent_type.s,
                               args.new_item_name.some, args.new_item_name.s,
                               args.remove_version.some, args.remove_version.s)

\* C1 amended: the same concatenation, an optional part being present when
\* its value is given and is not the empty string.
C1_PresentMeansNonEmpty ==
    Composed =>
        message.s = ComposedAs(args.item_type, args.item_name.s,
                               /\ args.parent_name.some
                               /\ args.parent_name.s # ""
                               /\ args.parent_type.some
                               /\ args.parent_type.s # "",
                               args.parent_name.s, args.parent_type.s,
                               args.new_item_name.some
                                   /\ args.new_item_name.s # "",
                               args.new_item_name.s,
                               args.remove_version.some
                                   /\ args.remove_version.s # "",
                               args.remove_version.s)

\* an argument with every optional part given
C1_Witness ==
    /\ pc = "composed"
    /\ args = [item_type |-> "argument", item_name |-> Some("x"),
               new_item_name |-> Some("y"), remove_version |-> Some("2.0"),
               parent_name |-> Some("r"), parent_type |-> Some("method")]
    /\ message.s = "The 'x' argument for the 'r' method will be superseded "
                   \o "by 'y'. Support for this argument will be removed in "
                   \o "version 2.0."

-----------------------------------------------------------------------------
(* Properties of the stack walk (under SpecWalk) *)

\* the in-package condition as documented: the identifier is non-empty and
\* equals package_name or starts with package_name followed by a dot
InPackageClaimed(fr) ==
    /\ fr.tag = "str"
    /\ fr.s # <<>>
    /\ \/ fr.s = package_name
       \/ StartsWith(fr.s, package_name \o <<".">>)

\* a dotted sub-namespace of the bound package
DottedSub(fr) ==
    /\ fr.tag = "str"
    /\ Len(fr.s) > Len(package_name) + 1
    /\ StartsWith(fr.s, package_name \o <<".">>)

\* a namespace that is neither the bound package nor nested under it
Unrelated(fr) ==
    /\ fr.tag = "str"
    /\ fr.s # <<>>
    /\ fr.s # package_name
    /\ ~StartsWith(fr.s, package_name \o <<".">>)

Walking == pc = "find" /\ frame <= Len(chain)

\* C3: a step of the walk counts the frame it is at, and moves past it,
\* exactly when the frame satisfies the documented in-package condition.
C3_CountedIffInPackage ==
    [][Walking =>
          ((count' = count + 1 /\ frame' = frame + 1 /\ pc' = "find")
              <=> InPackageClaimed(chain[frame]))]_vars

\* the first k frames are dotted sub-namespaces and frame k is unrelated
FirstUnrelatedAt(k) ==
    /\ k < Len(chain)
    /\ \A i \in 1..k : DottedSub(chain[i])
    /\ Unrelated(chain[k + 1])

\* C4: when frames 0..k-1 are dotted sub-namespaces of the package and frame
\* k is unrelated, the walk never raises, never goes past frame k, and
\* returns k, whatever the frames above k are.
C4_DepthIsFirstUnrelated ==
    \A k \in 0..Len(chain) :
        FirstUnrelatedAt(k) =>
            /\ outcome = "running"
            /\ count <= k
            /\ frame <= k + 1
            /\ pc # "find" => (pc = "warn" /\ stacklevel = SomeInt(k))

\* one sub-namespace frame, an unrelated one, and the package again above it
C4_Witness ==
    /\ package_name = <<"p">>
    /\ chain = <<Package(<<"p", ".", "s">>), Package(<<"o">>),
                 Package(<<"p", ".", "s">>)>>
    /\ pc = "warn"
    /\ stacklevel = SomeInt(1)

\* C5: when every frame up to the outermost one is inside the package, the
\* walk ends without raising and returns the number of frames.
C5_ExhaustedChainReturnsLength ==
    (\A i \in 1..Len(chain) : DottedSub(chain[i])) =>
        /\ outcome = "running"
        /\ pc # "find" => (pc = "warn" /\ stacklevel = SomeInt(Len(chain)))

\* the frames whose identifier is missing: no "__package__" key, None, or ""
NoIdentifier == {Absent, NonePackage, Package(<<>>)}

\* C6: a walk that has ended at a frame without an identifier has returned
\* the count so far, and nothing was raised.
C6_NoIdentifierStopsQuietly ==
    (pc # "find" /\ frame <= Len(chain) /\ chain[frame] \in NoIdentifier) =>
        /\ pc = "warn"
        /\ stacklevel = SomeInt(count)
        /\ outcome = "running"

-----------------------------------------------------------------------------
(* Properties of the entry points (under Spec) *)

Calls == 1..Len(delivered)

\* C2: a message that is provided (anything but None, "" included) is the
\* text of every call made to the host.
C2_ProvidedMessageDelivered ==
    (pc # "idle" /\ args.message.some) =>
        /\ message.s = args.message.s
        /\ \A i \in Calls : delivered[i].message = args.message.s

\* C7: a supplied stacklevel (0 included) is the one passed to the host and
\* no inference is started; an absent one is replaced by what the one
\* inference returned.  The message, supplied or generated, plays no part.
C7_SuppliedOrInferredDepth ==
    pc # "idle" =>
        IF args.stacklevel.some
        THEN /\ pc # "find"
             /\ inferences = 0
             /\ \A i \in Calls : delivered[i].stacklevel = args.stacklevel.n
        ELSE /\ inferences = IF pc = "show" THEN 0 ELSE 1
             /\ \A i \in Calls : delivered[i].stacklevel = count

\* deprecate_argument called with stacklevel=0 and no message
C7_Witness ==
    /\ entry = "deprecate_argument"
    /\ args.stacklevel = SomeInt(0)
    /\ ~args.message.some
    /\ pc = "done"
    /\ Len(delivered) = 1
    /\ delivered[1].stacklevel = 0
    /\ inferences = 0

\* the kind label and the parent kind label of each entry point
KindOf ==
    [deprecate_argument |-> "argument", deprecate_attribute |-> "attribute",
     deprecate_class |-> "class", deprecate_method |-> "method"]

ParentKindOf ==
    [deprecate_argument |-> "method", deprecate_attribute |-> "class",
     deprecate_class |-> "", deprecate_method |-> "class"]

\* C8: without a message, what an entry point delivers is the composed
\* sentence for its own kind, with its own parent clause (none for a class),
\* built from its name, replacement and remove_version.
C8_GeneratedPerEntryPoint ==
    (pc # "idle" /\ ~args.message.some) =>
        LET expected ==
                ComposedAs(KindOf[entry], Format(args.name),
                           entry # "deprecate_class" /\ Truthy(args.parent),
                           Format(args.parent), ParentKindOf[entry],
                           Truthy(args.new_name), Format(args.new_name),
                           Truthy(args.remove_version),
                           Format(args.remove_version))
        IN  /\ message.s = expected
            /\ \A i \in Calls : delivered[i].message = expected

\* deprecate_method(method_name="x", class_name="r") has been delivered
C8_Witness ==
    /\ entry = "deprecate_method"
    /\ ~args.message.some
    /\ args.parent = Some("r")
    /\ Len(delivered) = 1
    /\ delivered[1].message =
           "The 'x' method for the 'r' class will be removed. "
           \o "Support for this method will be removed in a future version."

\* C9: an invocation that has ended made exactly one call to the host, with
\* the resolved message, the DeprecationWarning category and the resolved
\* depth, and ended by the host returning or by the host's own exception.
C9_ExactlyOneDelivery ==
    pc = "done" =>
        /\ Len(delivered) = 1
        /\ delivered[1] = [message |-> message.s,
                           category |-> "DeprecationWarning",
                           stacklevel |-> stacklevel.n]
        /\ outcome \in {"returned", "DeprecationWarning"}

\* The host: depth 1 (and anything below) designates the frame that calls
\* warn, _show_deprecation_message, which is chain[2]; depth d designates
\* the frame d - 1 callers above it.
ReportedFrame(d) == IF d <= 1 THEN 2 ELSE d + 1

\* the handler's frames are inside the package and a caller is outside it
ExternalCaller ==
    /\ InPackageClaimed(module_package)
    /\ \E j \in 1..Len(chain) : ~InPackageClaimed(chain[j])

FirstOutside ==
    CHOOSE j \in 1..Len(chain) :
        /\ ~InPackageClaimed(chain[j])
        /\ \A i \in 1..(j - 1) : InPackageClaimed(chain[i])

\* C10: with the depth inferred, the frame the host reports is the lowest
\* frame of the chain that fails the in-package condition.
C10_ReportsFirstExternalFrame ==
    (pc # "idle" /\ ~args.stacklevel.some /\ ExternalCaller) =>
        \A i \in Calls : ReportedFrame(delivered[i].stacklevel) = FirstOutside

=============================================================================
